---- MODULE Spec2Model ----
(***************************************************************************)
(* Model of the Gefaehrdungsbeurteilung MCP server tools:                  *)
(*   src/src/tools/media.py      video_to_frames, extract_image_metadata   *)
(*   src/src/tools/documents.py  create_gefaehrdungsbeurteilung            *)
(*                                                                         *)
(* Three specifications share the module:                                  *)
(*   Spec      concurrent media calls over the shared scratch root         *)
(*   SpecExif  the metadata extractor applied to one image                 *)
(*   SpecDoc   the document renderer applied to one request                *)
(***************************************************************************)
EXTENDS Integers, Sequences, FiniteSets, TLC

VARIABLES
    \* ---- Spec: media calls -------------------------------------------
    op,        \* op[c]: the tool a call runs ("none" before it is invoked)
    pc,        \* pc[c]: the call's position in the tool's code
    arg,       \* arg[c]: the call's arguments
    work_dir,  \* work_dir[c]: the job name _get_work_dir drew (0: none yet)
    loc,       \* loc[c]: locals of the call (video_info, outcome of the try body)
    result,    \* result[c]: the JSON object the call returned
    dirs,      \* job directories that exist under TEMP_DIR
    files,     \* files that exist in the job directories
    \* ---- SpecExif ----------------------------------------------------
    exif_in,   \* the image handed to _extract_exif
    exif_out,  \* the mapping _extract_exif returned
    \* ---- SpecDoc -----------------------------------------------------
    doc_in,    \* the arguments of create_gefaehrdungsbeurteilung
    doc_out    \* the JSON object it returned

mediaVars == <<op, pc, arg, work_dir, loc, result, dirs, files>>
exifVars  == <<exif_in, exif_out>>
docVars   == <<doc_in, doc_out>>
vars      == <<op, pc, arg, work_dir, loc, result, dirs, files,
               exif_in, exif_out, doc_in, doc_out>>

\* A value for "nothing returned yet"; no tool result has this shape.
Pending == [pending |-> TRUE]

\* The empty mapping (Python {}).
EmptyDict == [k \in {} |-> 0]

Min(a, b) == IF a <= b THEN a ELSE b

(***************************************************************************)
(* EXIF values.  A numeric EXIF value is [ok, val]: ok is whether float()  *)
(* or int() accepts it, val its value.  Coordinates are returned in        *)
(* micro-degrees (6 decimal places), altitudes in decimetres (1 decimal    *)
(* place); an altitude tag holds centimetres.                              *)
(***************************************************************************)
Num(v) == [ok |-> TRUE, val |-> v]
NotNum == [ok |-> FALSE, val |-> 0]

\* round(x, n) where x = num / den >= 0: nearest, ties to even.
RoundDiv(num, den) ==
    LET q == num \div den
        r == num % den
    IN  IF 2 * r < den THEN q
        ELSE IF 2 * r > den THEN q + 1
        ELSE IF q % 2 = 0 THEN q ELSE q + 1

\* The seconds in a degree (media.py:42), and the micro-degrees in an arc
\* second, 10^6 / 3600 (media.py:45), as the fraction 2500 / 9.
ArcSecondsPerDegree == 3600
MicroPerArcSecondNum == 2500
MicroPerArcSecondDen == 9

\* media.py:36-47.  degrees + minutes/60 + seconds/3600, negated for S/W,
\* rounded to 6 places; TypeError/IndexError/ValueError give 0.0.
_gps_dms_to_decimal(dms_tuple, ref) ==
    IF Len(dms_tuple) < 3 \/ \E i \in 1..3 : ~dms_tuple[i].ok
    THEN 0
    ELSE LET arcsec == dms_tuple[1].val * ArcSecondsPerDegree
                       + dms_tuple[2].val * 60 + dms_tuple[3].val
             micro  == RoundDiv(arcsec * MicroPerArcSecondNum, MicroPerArcSecondDen)
         IN  IF ref \in {"S", "W"} THEN 0 - micro ELSE micro

\* dict.get(key, default)
Get(d, key, default) == IF key \in DOMAIN d THEN d[key] ELSE default

StrTags == {"DateTime", "DateTimeOriginal", "DateTimeDigitized",
            "Make", "Model", "Software"}
IntTags == {"Orientation", "ImageWidth", "ImageLength"}

ZeroDms == <<Num(0), Num(0), Num(0)>>

\* media.py:61-75: the tag loop.  GPSInfo fills gps_raw, the string and
\* integer tags are copied, every other tag is dropped.
GpsRaw(exif_data) == Get(exif_data, "GPSInfo", EmptyDict)

TagPart(exif_data) ==
    [t \in DOMAIN exif_data \cap (StrTags \cup IntTags) |->
        IF t \in IntTags THEN exif_data[t].val ELSE exif_data[t]]

MapsUrl(lat, lon) == <<"https://www.google.com/maps?q=", lat, ",", lon>>

\* media.py:78-95: the coordinate block.
GpsPart(gps_raw) ==
    IF DOMAIN gps_raw = {} THEN EmptyDict
    ELSE LET lat == _gps_dms_to_decimal(Get(gps_raw, "GPSLatitude", ZeroDms),
                                        Get(gps_raw, "GPSLatitudeRef", "N"))
             lon == _gps_dms_to_decimal(Get(gps_raw, "GPSLongitude", ZeroDms),
                                        Get(gps_raw, "GPSLongitudeRef", "E"))
         IN  IF lat # 0 \/ lon # 0
             THEN [gps_latitude |-> lat, gps_longitude |-> lon,
                   gps_maps_url |-> MapsUrl(lat, lon)]
             ELSE EmptyDict

\* media.py:97-102: altitude, rounded to one decimal place.
AltPart(gps_raw) ==
    IF "GPSAltitude" \in DOMAIN gps_raw /\ gps_raw["GPSAltitude"].ok
    THEN [gps_altitude_m |-> RoundDiv(gps_raw["GPSAltitude"].val, 10)]
    ELSE EmptyDict

ExifError == [error |-> "EXIF-Extraktion fehlgeschlagen"]
ExifInfo  == [info |-> "Keine EXIF-Daten vorhanden"]

\* media.py:50-106.  An image is [openable, width, height, exif]; exif is the
\* mapping img._getexif() returns (EmptyDict for None or {}).
_extract_exif(img) ==
    IF ~img.openable THEN ExifError
    ELSE IF DOMAIN img.exif = {} THEN ExifInfo
    ELSE IF \E t \in DOMAIN img.exif \cap IntTags : ~img.exif[t].ok
         THEN ExifError
    ELSE TagPart(img.exif) @@ GpsPart(GpsRaw(img.exif))
                           @@ AltPart(GpsRaw(img.exif))

(***************************************************************************)
(* SpecExif: _extract_exif applied to one image.                           *)
(***************************************************************************)
\* {} or {key: v} for each v
Opt(key, vals) == {EmptyDict} \cup {key :> v : v \in vals}

\* Degree/minute/second triples: well formed, all zero, one arc second,
\* too short (IndexError) and with a non-numeric component (ValueError).
DmsValues == { <<Num(48), Num(30), Num(0)>>, ZeroDms,
               <<Num(0), Num(0), Num(1)>>,
               <<Num(48), Num(30)>>, <<Num(48), NotNum, Num(0)>> }

GpsDicts ==
    { a @@ b @@ c @@ d @@ e :
        a \in Opt("GPSLatitude", DmsValues),
        b \in Opt("GPSLatitudeRef", {"N", "S"}),
        c \in Opt("GPSLongitude", DmsValues),
        d \in Opt("GPSLongitudeRef", {"E", "W"}),
        e \in Opt("GPSAltitude", {Num(12345), NotNum}) }

TagDicts ==
    { a @@ b @@ c :
        a \in Opt("DateTime", {"2024:05:01 10:00:00"}),
        b \in Opt("Orientation", {Num(1), NotNum}),
        c \in Opt("Flash", {Num(0)}) }

ExifDatas ==
    { t @@ g : t \in TagDicts,
               g \in {EmptyDict} \cup {"GPSInfo" :> d : d \in GpsDicts} }

CorruptImage == [openable |-> FALSE, width |-> 0, height |-> 0,
                 exif |-> EmptyDict]
ValidImage(e) == [openable |-> TRUE, width |-> 4, height |-> 3, exif |-> e]

Images == {CorruptImage} \cup {ValidImage(e) : e \in ExifDatas}

MediaIdle ==
    /\ op = <<>> /\ pc = <<>> /\ arg = <<>> /\ work_dir = <<>>
    /\ loc = <<>> /\ result = <<>> /\ dirs = {} /\ files = {}
ExifIdle == exif_in = CorruptImage /\ exif_out = Pending
DocIdle  == doc_in = Pending /\ doc_out = Pending

InitExif ==
    /\ exif_in \in Images
    /\ exif_out = Pending
    /\ MediaIdle /\ DocIdle

ExtractExif ==
    /\ exif_out = Pending
    /\ exif_out' = _extract_exif(exif_in)
    /\ UNCHANGED <<exif_in, mediaVars, docVars>>

NextExif == ExtractExif
SpecExif == InitExif /\ [][NextExif]_vars

\* The geolocation keys of a metadata mapping.
GpsKeys == {"gps_latitude", "gps_longitude", "gps_maps_url"}

\* A coordinate tag of gps_raw decodes to a non-zero value: it is present,
\* well formed and not 0.
DecodesNonZero(gps_raw, tag, ref) ==
    /\ tag \in DOMAIN gps_raw
    /\ Len(gps_raw[tag]) >= 3
    /\ \A i \in 1..3 : gps_raw[tag][i].ok
    /\ _gps_dms_to_decimal(gps_raw[tag], ref) # 0

\* C8: the geolocation keys are emitted only when both the latitude and the
\* longitude tag are present and decode to non-zero values, and the three keys
\* appear together or not at all.
C8_GpsOnlyWhenBothNonZero ==
    exif_out # Pending =>
        /\ (GpsKeys \cap DOMAIN exif_out # {} =>
              /\ DecodesNonZero(GpsRaw(exif_in.exif), "GPSLatitude", "N")
              /\ DecodesNonZero(GpsRaw(exif_in.exif), "GPSLongitude", "E"))
        /\ (GpsKeys \cap DOMAIN exif_out \in {{}, GpsKeys})

(***************************************************************************)
(* SpecDoc: create_gefaehrdungsbeurteilung applied to one request.         *)
(* A Python str is a sequence of one-character strings, so that lower()    *)
(* and strip() are computed.                                               *)
(***************************************************************************)
UpperToLower ==
    ("H" :> "h") @@ ("O" :> "o") @@ ("C" :> "c") @@ ("M" :> "m") @@
    ("I" :> "i") @@ ("T" :> "t") @@ ("E" :> "e") @@ ("L" :> "l") @@
    ("N" :> "n") @@ ("D" :> "d") @@ ("R" :> "r") @@ ("G" :> "g")

Whitespace == {" ", "\t", "\n"}

\* str.lower()
Lower(s) ==
    [i \in 1..Len(s) |->
        IF s[i] \in DOMAIN UpperToLower THEN UpperToLower[s[i]] ELSE s[i]]

\* str.strip(): leading and trailing whitespace removed.
Strip(s) ==
    LET keep == {i \in 1..Len(s) : s[i] \notin Whitespace}
    IN  IF keep = {} THEN <<>>
        ELSE LET first == CHOOSE i \in keep : \A j \in keep : i <= j
                 last  == CHOOSE i \in keep : \A j \in keep : j <= i
             IN  SubSeq(s, first, last)

HOCH    == <<"h", "o", "c", "h">>
MITTEL  == <<"m", "i", "t", "t", "e", "l">>
NIEDRIG == <<"n", "i", "e", "d", "r", "i", "g">>

\* documents.py:47-54
_get_risk_color(risiko) ==
    LET r == Strip(Lower(risiko))
    IN  IF r = HOCH THEN "COLOR_RISK_HIGH"
        ELSE IF r = MITTEL THEN "COLOR_RISK_MEDIUM"
        ELSE "COLOR_RISK_LOW"

\* documents.py:57-64
_get_risk_label(risiko) ==
    LET r == Strip(Lower(risiko))
    IN  IF r = HOCH THEN "HOCH"
        ELSE IF r = MITTEL THEN "MITTEL"
        ELSE "NIEDRIG"

\* g.get("risiko", "mittel"): a hazard record is a mapping; its risiko value
\* is [str, chars], str telling whether the JSON value is a string.
PyStr(chars) == [str |-> TRUE, chars |-> chars]
NotStr == [str |-> FALSE, chars |-> <<>>]
Risiko(g) == Get(g, "risiko", PyStr(MITTEL))

\* documents.py:255-259: one record's contribution to risk_counts[key].
RiskCountsKey(g) == Strip(Lower(Risiko(g).chars))

risk_counts(gefaehrdungen_list) ==
    LET n(key) == Cardinality({i \in 1..Len(gefaehrdungen_list) :
                                 RiskCountsKey(gefaehrdungen_list[i]) = key})
    IN  [hoch |-> n(HOCH), mittel |-> n(MITTEL), niedrig |-> n(NIEDRIG)]

\* documents.py:296-350: the body rows of the hazard table, each with the
\* label and the background of its risk cell.
TableRows(gefaehrdungen_list) ==
    [i \in 1..Len(gefaehrdungen_list) |->
        [label |-> _get_risk_label(Risiko(gefaehrdungen_list[i]).chars),
         color |-> _get_risk_color(Risiko(gefaehrdungen_list[i]).chars)]]

\* documents.py:282-291 and 319-320: the header row, its risk cell.
HeaderRow == [label |-> "Risiko", color |-> "COLOR_PRIMARY"]

RowsWithoutHeader(gefaehrdungen_list) == TableRows(gefaehrdungen_list)

\* documents.py:293-315: rows = [header_row], then one row per record.
Rows(gefaehrdungen_list) == <<HeaderRow>> \o TableRows(gefaehrdungen_list)

\* documents.py:7-30: the names the module binds that the photo block uses.
\* reportlab's Image is bound as RLImage; PIL's Image is not imported.
DocumentsGlobals == {"json", "base64", "BytesIO", "RLImage", "KeepTogether",
                     "Paragraph", "Spacer", "PageBreak"}

\* documents.py:359-393: one photo.  A photo is a mapping with an optional
\* image_base64 -> [b64ok, decodable]; the result is what is appended to the
\* story: the scaled image block or the one-line error note.
EmbedPhoto(foto) ==
    IF "image_base64" \notin DOMAIN foto THEN "note"        \* KeyError
    ELSE IF ~foto["image_base64"].b64ok THEN "note"         \* binascii.Error
    ELSE IF "Image" \notin DocumentsGlobals THEN "note"     \* NameError
    ELSE IF ~foto["image_base64"].decodable THEN "note"     \* PIL error
    ELSE "image"

PhotoBlocksStopAtFirstFailure(fotos_list) ==
    LET bad == {i \in 1..Len(fotos_list) : EmbedPhoto(fotos_list[i]) = "note"}
    IN  [i \in {j \in 1..Len(fotos_list) : \A b \in bad : j <= b} |->
            EmbedPhoto(fotos_list[i])]

\* documents.py:354-393: the photo loop; one block per photo, in order.
PhotoBlocks(fotos_list) ==
    [i \in 1..Len(fotos_list) |-> EmbedPhoto(fotos_list[i])]

\* documents.py:195-432: the sections appended to the story, in order; the
\* photo section only for a non-empty photo list.
Sections(fotos_list) ==
    <<"Kopfbereich", "Projektdaten", "Gefaehrdungstabelle">>
    \o (IF Len(fotos_list) > 0 THEN <<"Fotodokumentation">> ELSE <<>>)
    \o <<"Unterschriften", "Footer">>

ParseError  == "JSON-Parsing-Fehler bei den Gefaehrdungen"
RenderError == "Fehler bei PDF-Erstellung"

Failure(msg) == [success |-> FALSE, error |-> msg]

\* documents.py:167-462.  A request is
\*   gefaehrdungen  [json |-> FALSE] (not JSON) or [json |-> TRUE, list |-> ...]
\*   fotos_base64   [empty |-> TRUE] for the literal "[]", else as above
\*   datum          "", "valid" or "invalid" (strptime raises ValueError)
\*   layout_ok      whether Paragraph(...) and doc.build() raise nothing
create_gefaehrdungsbeurteilung(req) ==
    IF ~req.gefaehrdungen.json THEN Failure(ParseError)
    ELSE IF ~req.fotos_base64.empty /\ ~req.fotos_base64.json
         THEN Failure(ParseError)
    ELSE IF req.datum = "invalid" THEN Failure(RenderError)
    ELSE LET gefaehrdungen_list == req.gefaehrdungen.list
             fotos_list == IF req.fotos_base64.empty THEN <<>>
                           ELSE req.fotos_base64.list
         IN  IF \E i \in 1..Len(gefaehrdungen_list) :
                    ~Risiko(gefaehrdungen_list[i]).str
             THEN Failure(RenderError)                \* AttributeError
             ELSE IF ~req.layout_ok THEN Failure(RenderError)
             ELSE [success |-> TRUE,
                   pdf |-> [sections |-> Sections(fotos_list),
                            table  |-> Rows(gefaehrdungen_list),
                            photos |-> PhotoBlocks(fotos_list)],
                   gefaehrdungen_count |-> Len(gefaehrdungen_list),
                   risiko_zusammenfassung |-> risk_counts(gefaehrdungen_list),
                   fotos_count |-> Len(fotos_list)]

MaxHazards == 2
MaxPhotos == 2

SeqsUpTo(S, n) == UNION {[1..k -> S] : k \in 0..n}

RisikoValues ==
    { PyStr(HOCH),
      PyStr(<<" ", "H", "O", "C", "H", " ">>),
      PyStr(<<"M", "i", "t", "t", "e", "l">>),
      PyStr(NIEDRIG),
      PyStr(<<"N", "I", "E", "D", "R", "I", "G", "\n">>),
      PyStr(<<"g", "e", "r", "i", "n", "g">>),
      PyStr(<<>>),
      NotStr }

Hazards == Opt("risiko", RisikoValues)

Photos == Opt("image_base64",
              { [b64ok |-> FALSE, decodable |-> FALSE],
                [b64ok |-> TRUE, decodable |-> FALSE],
                [b64ok |-> TRUE, decodable |-> TRUE] })

JsonLists(S, n) == {[json |-> FALSE, list |-> <<>>]}
                   \cup {[json |-> TRUE, list |-> l] : l \in SeqsUpTo(S, n)}

FotoArgs ==
    {[empty |-> TRUE, json |-> TRUE, list |-> <<>>]}
    \cup {[empty |-> FALSE, json |-> j.json, list |-> j.list] :
            j \in JsonLists(Photos, MaxPhotos)}

Requests ==
    [gefaehrdungen : JsonLists(Hazards, MaxHazards),
     fotos_base64  : FotoArgs,
     datum         : {"", "valid", "invalid"},
     layout_ok     : BOOLEAN]

InitDoc ==
    /\ doc_in \in Requests
    /\ doc_out = Pending
    /\ MediaIdle /\ ExifIdle

CreateGefaehrdungsbeurteilung ==
    /\ doc_out = Pending
    /\ doc_out' = create_gefaehrdungsbeurteilung(doc_in)
    /\ UNCHANGED <<doc_in, mediaVars, exifVars>>

NextDoc == CreateGefaehrdungsbeurteilung
SpecDoc == InitDoc /\ [][NextDoc]_vars

\* The severity tier a record normalizes to: hoch, mittel, and niedrig for
\* every other value.
Tier(g) ==
    LET r == Strip(Lower(Risiko(g).chars))
    IN  IF r = HOCH THEN "hoch" ELSE IF r = MITTEL THEN "mittel" ELSE "niedrig"

TierCount(list, tier) == Cardinality({i \in 1..Len(list) : Tier(list[i]) = tier})

\* C3: in every successful render each of the tallies hoch / mittel / niedrig
\* equals the number of input records whose normalized tier is that tier, an
\* unrecognized severity counting as niedrig.
C3_TallyMatchesTiers ==
    (doc_out # Pending /\ doc_out.success) =>
        /\ doc_out.risiko_zusammenfassung.hoch
             = TierCount(doc_in.gefaehrdungen.list, "hoch")
        /\ doc_out.risiko_zusammenfassung.mittel
             = TierCount(doc_in.gefaehrdungen.list, "mittel")
        /\ doc_out.risiko_zusammenfassung.niedrig
             = TierCount(doc_in.gefaehrdungen.list, "niedrig")

(***************************************************************************)
(* Spec: calls of video_to_frames and extract_image_metadata running       *)
(* concurrently over the scratch root TEMP_DIR.  A call advances one       *)
(* filesystem or subprocess step at a time; steps of different calls       *)
(* interleave.                                                             *)
(***************************************************************************)
NumCalls == 2
\* The job names uuid4().hex[:12] can yield (16^12 in the program).
NumNames == 2
\* The most frames the fps filter can yield from a video.
MaxVideoLen == 16

Calls == 1..NumCalls
JobNames == 1..NumNames

\* media.py:174
HardLimit == 15

Intervals == {1, 3}
MaxFramesArgs == {2, MaxVideoLen}
VideoLens == {0, 1, MaxVideoLen}

VideoArgs ==
    {[b64ok |-> FALSE, interval_seconds |-> 3, max_frames |-> 2]}
    \cup [b64ok : {TRUE}, interval_seconds : Intervals,
          max_frames : MaxFramesArgs]

GpsImage ==
    ValidImage("GPSInfo" :> (("GPSLatitude" :> <<Num(48), Num(30), Num(0)>>)
                             @@ ("GPSLongitude" :> <<Num(0), Num(0), Num(1)>>)
                             @@ ("GPSLongitudeRef" :> "W")))
DateImage == ValidImage("DateTime" :> "2024:05:01 10:00:00")
PlainImage == ValidImage(EmptyDict)

ImageArgs ==
    {[b64ok |-> FALSE, image |-> CorruptImage]}
    \cup [b64ok : {TRUE},
          image : {CorruptImage, PlainImage, DateImage, GpsImage}]

NoLocals == [max_frames |-> 0, probe |-> "none", video_info |-> EmptyDict,
             sample |-> "none", runs |-> 0, stderr |-> 0, listing |-> {},
             exc |-> "none", ret |-> Pending]

Init ==
    /\ op = [c \in Calls |-> "none"]
    /\ pc = [c \in Calls |-> "idle"]
    /\ arg = [c \in Calls |-> Pending]
    /\ work_dir = [c \in Calls |-> 0]
    /\ loc = [c \in Calls |-> NoLocals]
    /\ result = [c \in Calls |-> Pending]
    /\ dirs = {}
    /\ files = {}
    /\ ExifIdle /\ DocIdle

\* ---- the filesystem ----------------------------------------------------
\* A file is [dir, kind, idx, owner, data]: kind "input" (input.mp4), "image"
\* (image.jpg) or "frame" (frame_%04d.jpg, idx the number); owner is the call
\* that wrote it, data the image it holds.
File(d, kind, idx, owner, data) ==
    [dir |-> d, kind |-> kind, idx |-> idx, owner |-> owner, data |-> data]

SamePath(f, g) == f.dir = g.dir /\ f.kind = g.kind /\ f.idx = g.idx

\* Path.write_bytes and ffmpeg's image writer: create or overwrite.
Write(fs, new) ==
    {f \in fs : \A g \in new : ~SamePath(f, g)} \cup new

Exists(fs, d, kind) == \E f \in fs : f.dir = d /\ f.kind = kind

\* A JPEG written by ffmpeg: a valid image without EXIF data.
FrameImage == PlainImage

\* work_dir.glob("frame_*.jpg") as the numbers of the frame files.
FrameIdxs(fs, d) == {f.idx : f \in {g \in fs : g.dir = d /\ g.kind = "frame"}}

\* media.py:206: sorted(...), a set of frame numbers as the ascending sequence
\* (frame_%04d names sort as their numbers do).
Sorted(S) ==
    [k \in 1..Cardinality(S) |->
        CHOOSE x \in S : Cardinality({y \in S : y < x}) = k - 1]

\* ---- results -----------------------------------------------------------
TimeoutError == "Video-Verarbeitung hat zu lange gedauert (Timeout 120s)"
VideoError   == "Fehler bei Video-Verarbeitung"
FfmpegError  == "ffmpeg Fehler"
MetaError    == "Fehler bei Metadaten-Extraktion"

\* media.py:201: proc.stderr.decode()[-500:].  The diagnostic output is known
\* by its length n; a slice of it by the characters it skips and its length.
TailLen == 500

TailWholeOutput(n) == [skip |-> 0, len |-> n]

StderrTail(n) == [skip |-> IF n > TailLen THEN n - TailLen ELSE 0,
            len  |-> Min(n, TailLen)]

\* The lengths of diagnostic output drawn: none, and one character more than
\* the slice keeps.
StderrLens == {0, TailLen + 1}

\* media.py:198-202: the result for a non-zero exit status; detail is the
\* part of the error string that follows "ffmpeg Fehler: ".
FfmpegFailure(n) == Failure(FfmpegError) @@ [detail |-> StderrTail(n)]

VideoExceptGenericFirst(exc) == Failure(VideoError)

\* media.py:231-240: the except clauses of video_to_frames.
VideoExcept(exc) ==
    IF exc = "TimeoutExpired" THEN Failure(TimeoutError)
    ELSE Failure(VideoError)

\* media.py:285-289: the except clause of extract_image_metadata.
ImageExcept(exc) == Failure(MetaError)

\* An exception that leaves the tool function.
Raised(exc) == [raised |-> exc]

VideoInfoWithoutError(outcome) == [duration_seconds |-> 0, format |-> "mp4"]

\* media.py:109-142: _get_video_info on the outcome of the ffprobe run
\* ("ok", "error": not runnable or no usable JSON, "timeout": 30 s exceeded).
_get_video_info(outcome) ==
    IF outcome = "ok" THEN [duration_seconds |-> 10, format |-> "mp4"]
    ELSE [error |-> outcome]

FrameDataOffByOne(frame_num, interval_seconds, bytes) ==
    [frame_number |-> frame_num,
     timestamp_seconds |-> frame_num * interval_seconds,
     image_base64 |-> bytes]

\* media.py:208-214
FrameData(frame_num, interval_seconds, bytes) ==
    [frame_number |-> frame_num,
     timestamp_seconds |-> (frame_num - 1) * interval_seconds,
     image_base64 |-> bytes]

\* media.py:217-220: frame 1 carries the metadata unless extraction failed
\* or returned an empty mapping.
WithMetadata(frame_data, img) ==
    LET exif == _extract_exif(img)
    IN  IF frame_data.frame_number = 1 /\ DOMAIN exif # {}
           /\ "error" \notin DOMAIN exif
        THEN frame_data @@ [metadata |-> exif]
        ELSE frame_data

\* media.py:205-222: the frames list built from the listed frame files; the
\* payload of a frame is the file's content, named by the call whose ffmpeg
\* run wrote it and the file's number.
FileAt(fs, d, kind, idx) ==
    CHOOSE f \in fs : f.dir = d /\ f.kind = kind /\ f.idx = idx

Frames(fs, d, listing, interval_seconds) ==
    [k \in 1..Len(listing) |->
        LET f == FileAt(fs, d, "frame", listing[k])
        IN  WithMetadata(
                FrameData(k, interval_seconds,
                          [owner |-> f.owner, idx |-> f.idx]),
                f.data)]

\* media.py:224-229
VideoSuccess(frames, video_info) ==
    [success |-> TRUE, frame_count |-> Len(frames),
     video_info |-> video_info, frames |-> frames]

\* media.py:269-283: the metadata of the image file at img_path (an unreadable
\* image when the file is gone), with the dimensions added when EXIF has none.
ImageMetadata(img) ==
    LET exif == _extract_exif(img)
    IN  IF "ImageWidth" \notin DOMAIN exif /\ img.openable
        THEN [ImageWidth |-> img.width, ImageLength |-> img.height] @@ exif
        ELSE exif

ImageSuccess(exif) == [success |-> TRUE, metadata |-> exif]

\* ---- the steps of a call -----------------------------------------------
Goto(c, label) == pc' = [pc EXCEPT ![c] = label]

\* An exception raised inside the try block: the matching except clause
\* builds the return value, then the finally clause runs.
Except(c, exc) ==
    /\ loc' = [loc EXCEPT ![c].exc = exc,
                          ![c].ret = IF op[c] = "video_to_frames"
                                     THEN VideoExcept(exc)
                                     ELSE ImageExcept(exc)]
    /\ Goto(c, "cleanup")

\* A return statement inside the try block; the finally clause runs next.
Return(c, value) ==
    /\ loc' = [loc EXCEPT ![c].ret = value]
    /\ Goto(c, "cleanup")

\* The transport dispatches a tool call.
InvokeVideoToFrames(c) ==
    /\ pc[c] = "idle"
    /\ \E a \in VideoArgs : arg' = [arg EXCEPT ![c] = a]
    /\ op' = [op EXCEPT ![c] = "video_to_frames"]
    /\ Goto(c, "get_work_dir")
    /\ UNCHANGED <<work_dir, loc, result, dirs, files, exifVars, docVars>>

InvokeExtractImageMetadata(c) ==
    /\ pc[c] = "idle"
    /\ \E a \in ImageArgs : arg' = [arg EXCEPT ![c] = a]
    /\ op' = [op EXCEPT ![c] = "extract_image_metadata"]
    /\ Goto(c, "get_work_dir")
    /\ UNCHANGED <<work_dir, loc, result, dirs, files, exifVars, docVars>>

\* media.py:174
Cap(max_frames) == Min(max_frames, HardLimit)

\* media.py:21-25 called at media.py:174-175 and 262, before the try block.
\* The name is a random draw; mkdir(parents=True, exist_ok=True) accepts a
\* directory that exists and raises OSError when it cannot create one, and
\* that exception leaves the tool function.
_get_work_dir(c) ==
    /\ pc[c] = "get_work_dir"
    /\ \E name \in JobNames, mkdir_ok \in BOOLEAN :
         IF mkdir_ok
         THEN /\ work_dir' = [work_dir EXCEPT ![c] = name]
              /\ dirs' = dirs \cup {name}
              /\ loc' = [loc EXCEPT ![c].max_frames =
                            IF op[c] = "video_to_frames"
                            THEN Cap(arg[c].max_frames) ELSE 0]
              /\ Goto(c, "decode")
              /\ UNCHANGED result
         ELSE /\ result' = [result EXCEPT ![c] = Raised("OSError")]
              /\ Goto(c, "done")
              /\ UNCHANGED <<work_dir, dirs, loc>>
    /\ UNCHANGED <<op, arg, files, exifVars, docVars>>

\* media.py:179-181 and 265-267: decode the payload and write it into the
\* job directory.
WriteInput(c) ==
    /\ pc[c] = "decode"
    /\ IF ~arg[c].b64ok
       THEN Except(c, "binascii.Error") /\ UNCHANGED files
       ELSE IF work_dir[c] \notin dirs
       THEN Except(c, "FileNotFoundError") /\ UNCHANGED files
       ELSE IF op[c] = "video_to_frames"
       THEN /\ files' = Write(files, {File(work_dir[c], "input", 0, c,
                                           CorruptImage)})
            /\ Goto(c, "probe")
            /\ UNCHANGED loc
       ELSE /\ files' = Write(files, {File(work_dir[c], "image", 0, c,
                                           arg[c].image)})
            /\ Goto(c, "exif")
            /\ UNCHANGED loc
    /\ UNCHANGED <<op, arg, work_dir, result, dirs, exifVars, docVars>>

\* media.py:184: the ffprobe run; it can succeed only on an input file.
Probe(c) ==
    /\ pc[c] = "probe"
    /\ \E outcome \in {"ok", "error", "timeout"} :
         /\ outcome = "ok" => Exists(files, work_dir[c], "input")
         /\ loc' = [loc EXCEPT ![c].probe = outcome,
                               ![c].video_info = _get_video_info(outcome)]
    /\ Goto(c, "ffmpeg")
    /\ UNCHANGED <<op, arg, work_dir, result, dirs, files, exifVars,
                   docVars>>

\* The frame files an ffmpeg run leaves in the job directory: at most
\* -frames:v max_frames of the avail frames the fps filter yields.
FfmpegOutput(c, avail) ==
    {File(work_dir[c], "frame", k, c, FrameImage) :
        k \in 1..Min(avail, loc[c].max_frames)}

\* media.py:187-202: the ffmpeg run.  Exit status 0 needs the input file; a
\* run that is killed after 120 s may have written frames already.  The
\* diagnostic output (n characters) is used only after a non-zero exit;
\* decode() raises UnicodeDecodeError when it is not UTF-8.
Ffmpeg(c) ==
    /\ pc[c] = "ffmpeg"
    /\ \E outcome \in {"ok", "nonzero", "timeout", "oserror"},
          avail \in VideoLens, n \in StderrLens, utf8 \in BOOLEAN :
         /\ outcome = "ok" => Exists(files, work_dir[c], "input")
         /\ outcome \in {"nonzero", "oserror"} => avail = 0
         /\ outcome # "nonzero" => n = 0
         /\ n = 0 => utf8
         /\ avail > 0 => work_dir[c] \in dirs
         /\ files' = Write(files, FfmpegOutput(c, avail))
         /\ IF outcome = "ok"
            THEN /\ loc' = [loc EXCEPT ![c].sample = outcome,
                                       ![c].runs = @ + 1]
                 /\ Goto(c, "glob")
            ELSE IF outcome = "nonzero" /\ utf8
            THEN /\ loc' = [loc EXCEPT ![c].sample = outcome,
                                       ![c].runs = @ + 1,
                                       ![c].stderr = n,
                                       ![c].ret = FfmpegFailure(n)]
                 /\ Goto(c, "cleanup")
            ELSE IF outcome = "nonzero"
            THEN /\ loc' = [loc EXCEPT
                        ![c].sample = outcome,
                        ![c].runs = @ + 1,
                        ![c].stderr = n,
                        ![c].exc = "UnicodeDecodeError",
                        ![c].ret = VideoExcept("UnicodeDecodeError")]
                 /\ Goto(c, "cleanup")
            ELSE /\ loc' = [loc EXCEPT
                        ![c].sample = outcome,
                        ![c].runs = @ + 1,
                        ![c].exc = IF outcome = "timeout"
                                   THEN "TimeoutExpired" ELSE "OSError",
                        ![c].ret = VideoExcept(IF outcome = "timeout"
                                               THEN "TimeoutExpired"
                                               ELSE "OSError")]
                 /\ Goto(c, "cleanup")
    /\ UNCHANGED <<op, arg, work_dir, result, dirs, exifVars, docVars>>

\* media.py:206: the frame files are listed.
Glob(c) ==
    /\ pc[c] = "glob"
    /\ loc' = [loc EXCEPT ![c].listing = FrameIdxs(files, work_dir[c])]
    /\ Goto(c, "read")
    /\ UNCHANGED <<op, arg, work_dir, result, dirs, files, exifVars,
                   docVars>>

\* media.py:206-229: the listed files are read in name order and returned;
\* read_bytes raises when a listed file is gone.
ReadFrames(c) ==
    /\ pc[c] = "read"
    /\ IF loc[c].listing \subseteq FrameIdxs(files, work_dir[c])
       THEN Return(c, VideoSuccess(
                Frames(files, work_dir[c], Sorted(loc[c].listing),
                       arg[c].interval_seconds),
                loc[c].video_info))
       ELSE Except(c, "FileNotFoundError")
    /\ UNCHANGED <<op, arg, work_dir, result, dirs, files, exifVars,
                   docVars>>

\* media.py:269-283
ReadImage(c) ==
    /\ pc[c] = "exif"
    /\ LET img == IF Exists(files, work_dir[c], "image")
                  THEN FileAt(files, work_dir[c], "image", 0).data
                  ELSE CorruptImage
       IN  Return(c, ImageSuccess(ImageMetadata(img)))
    /\ UNCHANGED <<op, arg, work_dir, result, dirs, files, exifVars,
                   docVars>>

\* media.py:28-33, first half of shutil.rmtree(work_dir, ignore_errors=True):
\* the entries of the directory are listed and unlinked.
_cleanup(c) ==
    /\ pc[c] = "cleanup"
    /\ files' = {f \in files : f.dir # work_dir[c]}
    /\ Goto(c, "rmdir")
    /\ UNCHANGED <<op, arg, work_dir, loc, result, dirs, exifVars,
                   docVars>>

\* Second half of rmtree: rmdir, whose error on a directory that is gone or
\* not empty is ignored; then the call returns the value of the try block.
RmdirAndReturn(c) ==
    /\ pc[c] = "rmdir"
    /\ dirs' = IF \E f \in files : f.dir = work_dir[c]
               THEN dirs ELSE dirs \ {work_dir[c]}
    /\ result' = [result EXCEPT ![c] = loc[c].ret]
    /\ Goto(c, "done")
    /\ UNCHANGED <<op, arg, work_dir, loc, files, exifVars, docVars>>

Next ==
    \/ \E c \in Calls : InvokeVideoToFrames(c)
    \/ \E c \in Calls : InvokeExtractImageMetadata(c)
    \/ \E c \in Calls : _get_work_dir(c)
    \/ \E c \in Calls : WriteInput(c)
    \/ \E c \in Calls : Probe(c)
    \/ \E c \in Calls : Ffmpeg(c)
    \/ \E c \in Calls : Glob(c)
    \/ \E c \in Calls : ReadFrames(c)
    \/ \E c \in Calls : ReadImage(c)
    \/ \E c \in Calls : _cleanup(c)
    \/ \E c \in Calls : RmdirAndReturn(c)

Spec == Init /\ [][Next]_vars

(***************************************************************************)
(* Claims about the media calls (Spec).                                    *)
(***************************************************************************)
Returned(c) == pc[c] = "done"
Structured(c) == Returned(c) /\ "success" \in DOMAIN result[c]
VideoOk(c) ==
    Structured(c) /\ op[c] = "video_to_frames" /\ result[c].success
ImageOk(c) ==
    Structured(c) /\ op[c] = "extract_image_metadata" /\ result[c].success

\* A call that holds a job directory and has not returned.
Running(c) == pc[c] \notin {"idle", "get_work_dir", "done"}

\* C1: the scratch directory created for a call is absent when the call
\* returns, on every exit path.
C1_ScratchAbsentAtReturn ==
    [][\A c \in Calls :
          (pc[c] # "done" /\ pc'[c] = "done" /\ work_dir[c] # 0)
              => work_dir[c] \notin dirs']_vars

\* C2: no call lets an exception propagate past the operation boundary: every
\* call that ends returns a structured result.
C2_NoExceptionEscapes ==
    \A c \in Calls : Returned(c) => "success" \in DOMAIN result[c]

\* C4: two concurrently running calls never use the same scratch directory,
\* and a call never returns frames that another call produced.
C4_DistinctScratchDirs ==
    /\ \A c1, c2 \in Calls :
          (c1 # c2 /\ Running(c1) /\ Running(c2))
              => work_dir[c1] # work_dir[c2]
    /\ \A c \in Calls :
          VideoOk(c) =>
              \A k \in 1..Len(result[c].frames) :
                  result[c].frames[k].image_base64.owner = c

\* C5: a successful video_to_frames result holds at most
\* min(max_frames, 15) frames.
C5_FrameCap ==
    \A c \in Calls :
        VideoOk(c) =>
            /\ result[c].frame_count <= Min(arg[c].max_frames, HardLimit)
            /\ Len(result[c].frames) <= Min(arg[c].max_frames, HardLimit)

\* C6: in a successful video_to_frames result the frames are numbered 1..n in
\* file-name order, frame k has timestamp (k-1) * interval_seconds, and
\* frame_count is n.
C6_FramesNumbered ==
    \A c \in Calls :
        VideoOk(c) =>
            LET r == result[c]
            IN  /\ r.frame_count = Len(r.frames)
                /\ \A k \in 1..Len(r.frames) :
                      /\ r.frames[k].frame_number = k
                      /\ r.frames[k].timestamp_seconds
                           = (k - 1) * arg[c].interval_seconds
                      /\ k > 1 => r.frames[k - 1].image_base64.idx
                                    < r.frames[k].image_base64.idx

C6_Witness ==
    \E c \in Calls :
        /\ VideoOk(c)
        /\ arg[c].interval_seconds = 3
        /\ Len(result[c].frames) >= 2

\* What the claim calls a failed operation: an exception in the try block, a
\* non-zero exit of the sampling utility, or a metadata extraction that
\* ended in the extractor's error mapping.
OperationFailed(c) ==
    \/ loc[c].exc # "none"
    \/ loc[c].sample = "nonzero"
    \/ /\ op[c] = "extract_image_metadata"
       /\ "metadata" \in DOMAIN result[c]
       /\ "error" \in DOMAIN result[c].metadata

\* C7: a failed operation returns success = false with an error string, and
\* success = true is returned only when the operation did not fail.
C7_FailureReported ==
    \A c \in Calls :
        Structured(c) =>
            /\ OperationFailed(c) <=> ~result[c].success
            /\ ~result[c].success => "error" \in DOMAIN result[c]

\* C9: for a valid image without GPS tags, the metadata extract_image_metadata
\* returns has no gps_latitude and no gps_longitude; nor has the metadata of
\* frame 1 of a video, whose frames carry no GPS tags.
C9_NoGpsForUntaggedImage ==
    \A c \in Calls :
        /\ (ImageOk(c) /\ arg[c].image.openable
              /\ DOMAIN GpsRaw(arg[c].image.exif) = {})
              => {"gps_latitude", "gps_longitude"}
                    \cap DOMAIN result[c].metadata = {}
        /\ (VideoOk(c) /\ Len(result[c].frames) > 0
              /\ "metadata" \in DOMAIN result[c].frames[1])
              => {"gps_latitude", "gps_longitude"}
                    \cap DOMAIN result[c].frames[1].metadata = {}

Carried(c) ==
    IF "detail" \in DOMAIN result[c] THEN result[c].detail
    ELSE [skip |-> loc[c].stderr, len |-> 0]

\* C11: a non-zero exit status of the sampling utility ends the call: the
\* result is success = false with an error, what the error carries of the
\* diagnostic output is its end and at most 500 characters (the last 500, or
\* all of it when shorter, whenever the output decodes), the result has no
\* frames and no video_info, and the utility was run once.
C11_NonZeroExitFatal ==
    \A c \in Calls :
        (Structured(c) /\ loc[c].sample = "nonzero") =>
            /\ ~result[c].success
            /\ "error" \in DOMAIN result[c]
            /\ Carried(c).len <= TailLen
            /\ Carried(c).skip + Carried(c).len = loc[c].stderr
            /\ loc[c].exc = "none" =>
                  /\ result[c].error = FfmpegError
                  /\ Carried(c).len = Min(loc[c].stderr, TailLen)
            /\ {"frames", "frame_count", "video_info"}
                  \cap DOMAIN result[c] = {}
            /\ loc[c].runs = 1

C11_Witness ==
    \E c \in Calls :
        /\ Structured(c) /\ loc[c].sample = "nonzero"
        /\ loc[c].stderr > TailLen
        /\ result[c].error = FfmpegError
        /\ Carried(c).len = TailLen
        /\ loc[c].probe = "ok"

ProbeFailed(c) ==
    op[c] = "video_to_frames" /\ loc[c].probe \in {"error", "timeout"}

\* C12: a failed container probe (not runnable, no usable output, or the 30 s
\* timeout) does not end video_to_frames: video_info is a mapping with an error
\* field, no result is decided before the sampling step, the sampling step
\* runs, and a successful result carries that video_info.
C12_ProbeFailureNotFatal ==
    \A c \in Calls :
        ProbeFailed(c) =>
            /\ "error" \in DOMAIN loc[c].video_info
            /\ pc[c] = "ffmpeg" => loc[c].ret = Pending /\ loc[c].exc = "none"
            /\ pc[c] # "ffmpeg" => loc[c].runs = 1
            /\ Returned(c) => Structured(c)
            /\ VideoOk(c) =>
                  /\ result[c].video_info = loc[c].video_info
                  /\ result[c].frame_count = Len(result[c].frames)

C12_Witness ==
    \E c1, c2 \in Calls :
        /\ VideoOk(c1) /\ loc[c1].probe = "timeout"
        /\ Len(result[c1].frames) >= 1
        /\ "error" \in DOMAIN result[c1].video_info
        /\ VideoOk(c2) /\ loc[c2].probe = "error"
        /\ Len(result[c2].frames) >= 1

(***************************************************************************)
(* Claims about the document renderer (SpecDoc).                           *)
(***************************************************************************)
DocReturned == doc_out # Pending
DocOk == DocReturned /\ doc_out.success
DocFailed == DocReturned /\ ~doc_out.success

\* C13: a failed render returns the parse error exactly when the hazard list
\* is malformed and the generic render error for every other failure (a
\* malformed photo list, an invalid date, a layout exception); both are
\* success = false results with an error.
C13_ParseErrorOnlyForHazards ==
    DocFailed =>
        /\ "error" \in DOMAIN doc_out
        /\ doc_out.error \in {ParseError, RenderError}
        /\ doc_out.error = ParseError <=> ~doc_in.gefaehrdungen.json

\* The photo list the renderer works on.
FotosList ==
    IF doc_in.fotos_base64.empty THEN <<>> ELSE doc_in.fotos_base64.list

\* A photo whose payload is a decodable image.
DecodableImage(foto) ==
    /\ "image_base64" \in DOMAIN foto
    /\ foto["image_base64"].b64ok
    /\ foto["image_base64"].decodable

\* C14: in a successful render every photo whose payload is a decodable image
\* is embedded as an image, not replaced by an error note.
C14_DecodablePhotoEmbedded ==
    DocOk =>
        \A i \in 1..Len(FotosList) :
            DecodableImage(FotosList[i]) =>
                /\ i \in DOMAIN doc_out.pdf.photos
                /\ doc_out.pdf.photos[i] = "image"

\* Nothing but the photos can fail in the request.
ValidButForPhotos ==
    /\ doc_in.gefaehrdungen.json
    /\ \A i \in 1..Len(doc_in.gefaehrdungen.list) :
          Risiko(doc_in.gefaehrdungen.list[i]).str
    /\ doc_in.fotos_base64.empty \/ doc_in.fotos_base64.json
    /\ doc_in.datum # "invalid"
    /\ doc_in.layout_ok

\* C15: a photo that cannot be embedded (no image_base64, bad base64, not an
\* image) does not abort the render: the call succeeds whenever nothing else
\* fails, the document holds one block per photo with an error note at the
\* position of each such photo, the signature and footer sections follow the
\* photos, and fotos_count is the length of the photo list.
C15_PhotoFailureIsInline ==
    DocReturned =>
        /\ ValidButForPhotos => doc_out.success
        /\ doc_out.success =>
              /\ DOMAIN doc_out.pdf.photos = 1..Len(FotosList)
              /\ \A i \in 1..Len(FotosList) :
                    ~DecodableImage(FotosList[i])
                        => doc_out.pdf.photos[i] = "note"
              /\ \E i, j, k \in DOMAIN doc_out.pdf.sections :
                    /\ i < j /\ j < k
                    /\ Len(FotosList) > 0
                          => doc_out.pdf.sections[i] = "Fotodokumentation"
                    /\ doc_out.pdf.sections[j] = "Unterschriften"
                    /\ doc_out.pdf.sections[k] = "Footer"
              /\ doc_out.fotos_count = Len(FotosList)

C15_Witness ==
    /\ DocOk
    /\ Len(FotosList) = 2
    /\ "image_base64" \notin DOMAIN FotosList[1]
    /\ doc_out.pdf.photos[1] = "note"
    /\ 2 \in DOMAIN doc_out.pdf.photos
    /\ doc_out.fotos_count = 2

\* C16: a successful render reports gefaehrdungen_count equal to the length
\* of the hazard list, and the hazard table is the header row followed by one
\* body row per record; with an empty hazard list the call succeeds whenever
\* nothing else fails, with a header-only table and all three tallies 0.
C16_CountAndRowsMatchInput ==
    DocReturned =>
        LET list == doc_in.gefaehrdungen.list
        IN  /\ doc_out.success =>
                  /\ doc_out.gefaehrdungen_count = Len(list)
                  /\ Len(doc_out.pdf.table) = Len(list) + 1
                  /\ doc_out.pdf.table[1] = HeaderRow
                  /\ \A i \in 1..Len(list) :
                        doc_out.pdf.table[i + 1]
                           = [label |-> _get_risk_label(Risiko(list[i]).chars),
                              color |-> _get_risk_color(Risiko(list[i]).chars)]
            /\ (ValidButForPhotos /\ list = <<>>) =>
                  /\ doc_out.success
                  /\ doc_out.pdf.table = <<HeaderRow>>
                  /\ doc_out.risiko_zusammenfassung
                        = [hoch |-> 0, mittel |-> 0, niedrig |-> 0]

C16_Witness ==
    /\ DocOk
    /\ doc_in.gefaehrdungen.list = <<>>
    /\ doc_out.gefaehrdungen_count = 0
    /\ doc_out.pdf.table = <<HeaderRow>>

\* The tier a risk cell shows, by its label and by its colour.
LabelTier == ("HOCH" :> "hoch") @@ ("MITTEL" :> "mittel")
             @@ ("NIEDRIG" :> "niedrig")
ColorTier == ("COLOR_RISK_HIGH" :> "hoch") @@ ("COLOR_RISK_MEDIUM" :> "mittel")
             @@ ("COLOR_RISK_LOW" :> "niedrig")

\* The body rows of the rendered table whose risk cell is labelled tier.
RowsLabelled(tier) ==
    {i \in 2..Len(doc_out.pdf.table) :
        LabelTier[doc_out.pdf.table[i].label] = tier}

\* C17: severity is normalized without regard to case and surrounding
\* whitespace, identically for the tally, the cell label and the cell colour:
\* a record whose severity is a variant of hoch (of mittel) is labelled and
\* coloured high (medium), the label and the colour of every record name the
\* same tier, and each tally counts the records shown with that tier.
C17_NormalizationConsistent ==
    DocOk =>
        LET list == doc_in.gefaehrdungen.list
            row(i) == doc_out.pdf.table[i + 1]
        IN  /\ \A i \in 1..Len(list) :
                  /\ LabelTier[row(i).label] = ColorTier[row(i).color]
                  /\ Strip(Lower(Risiko(list[i]).chars)) = HOCH
                        => LabelTier[row(i).label] = "hoch"
                  /\ Strip(Lower(Risiko(list[i]).chars)) = MITTEL
                        => LabelTier[row(i).label] = "mittel"
            /\ doc_out.risiko_zusammenfassung.hoch
                  = Cardinality(RowsLabelled("hoch"))
            /\ doc_out.risiko_zusammenfassung.mittel
                  = Cardinality(RowsLabelled("mittel"))
            /\ doc_out.risiko_zusammenfassung.niedrig
                  = Cardinality(RowsLabelled("niedrig"))

(***************************************************************************)
(* Claims about the coordinate conversion (SpecExif).                      *)
(***************************************************************************)
\* A triple the conversion can evaluate, as its three numbers.
WellFormed(t) == Len(t) >= 3 /\ \A i \in 1..3 : t[i].ok
Triple(t) == <<t[1].val, t[2].val, t[3].val>>

\* degrees + minutes/60 + seconds/3600 to 6 places, in micro-degrees, for
\* the triples of DmsValues.
ExpectedMicro ==
    (<<48, 30, 0>> :> 48500000) @@ (<<0, 0, 1>> :> 278) @@ (<<0, 0, 0>> :> 0)

\* The sign the hemisphere reference gives.
Signed(micro, ref) == IF ref \in {"S", "W"} THEN 0 - micro ELSE micro

\* A coordinate tag that is present but cannot be converted.
Malformed(gps_raw, tag) == tag \in DOMAIN gps_raw /\ ~WellFormed(gps_raw[tag])

\* C18: an emitted coordinate is degrees + minutes/60 + seconds/3600 rounded
\* to 6 places and negated exactly for the references S and W; a triple that
\* is too short or has a non-numeric component raises nothing and is treated
\* as no coordinate: the image gets no geolocation keys.
C18_DmsConversion ==
    exif_out # Pending =>
        LET gps_raw == GpsRaw(exif_in.exif)
            lat_ref == Get(gps_raw, "GPSLatitudeRef", "N")
            lon_ref == Get(gps_raw, "GPSLongitudeRef", "E")
        IN  /\ ("gps_latitude" \in DOMAIN exif_out
                  /\ "GPSLatitude" \in DOMAIN gps_raw
                  /\ WellFormed(gps_raw["GPSLatitude"])) =>
                  exif_out.gps_latitude
                     = Signed(ExpectedMicro[Triple(gps_raw["GPSLatitude"])],
                              lat_ref)
            /\ ("gps_longitude" \in DOMAIN exif_out
                  /\ "GPSLongitude" \in DOMAIN gps_raw
                  /\ WellFormed(gps_raw["GPSLongitude"])) =>
                  exif_out.gps_longitude
                     = Signed(ExpectedMicro[Triple(gps_raw["GPSLongitude"])],
                              lon_ref)
            /\ (Malformed(gps_raw, "GPSLatitude")
                  \/ Malformed(gps_raw, "GPSLongitude")) =>
                  /\ exif_out = ExifError
                        => \E t \in DOMAIN exif_in.exif \cap IntTags :
                              ~exif_in.exif[t].ok
                  /\ GpsKeys \cap DOMAIN exif_out = {}

====
